---- MODULE Spec2Model ----
(***************************************************************************)
(* Fault-injection layer of a passthrough filesystem: the GPT tracker      *)
(* (src/gpt.py) and the trigger-driven injector (src/injector.py).         *)
(*                                                                         *)
(* Buffers are sequences of byte values (0..255).  Python's 0-based,       *)
(* half-open slices s[a:b] are the operator Slice(s, a, b).  The typing of *)
(* a buffer as text or bytes is not modelled: "%s%s%s" % (pre, inj, post)  *)
(* is the concatenation of the three sequences.                            *)
(*                                                                         *)
(* A call that raises is modelled by a result record whose err field names *)
(* the exception; state changed before the raise stays changed.            *)
(***************************************************************************)
EXTENDS Integers, Sequences, FiniteSets, TLC

(***************************************************************************)
(* Bounds of the model.                                                    *)
(***************************************************************************)
MaxRules == 2
MaxCount == 3
MaxGen == 2
MaxEntries == 3

(***************************************************************************)
(* Program constants.                                                      *)
(***************************************************************************)
LbaSize == 512
HeaderLen == 92
EntryLen == 128
NameLen == 72
MinHeaderSize == 92
SectorBytes == 512

\* A key absent from a configuration dict (trigger['count'], replace['start']).
NoKey == 0 - 1
NoErr == "none"

Min(a, b) == IF a < b THEN a ELSE b

\* Python s[a:b] for 0 <= a, 0 <= b.
Slice(s, a, b) == SubSeq(s, a + 1, Min(b, Len(s)))

\* Python s[a:] for 0 <= a.
SliceFrom(s, a) == SubSeq(s, a + 1, Len(s))

(***************************************************************************)
(* src/gpt.py : the decoder.                                               *)
(***************************************************************************)
RECURSIVE LE(_)
\* struct's little-endian unsigned integer ('<L', '<Q') of a byte string.
LE(b) == IF b = <<>> THEN 0 ELSE b[1] + 256 * LE(Tail(b))

SIGNATURE == <<69, 70, 73, 32, 80, 65, 82, 84>>
REVISION == <<0, 0, 1, 0>>

\* struct.unpack of GPT_HEADER_FORMAT on exactly HeaderLen bytes.
UnpackHeader(d) ==
    [ signature            |-> Slice(d, 0, 8),
      revision             |-> Slice(d, 8, 12),
      header_size          |-> LE(Slice(d, 12, 16)),
      crc32                |-> LE(Slice(d, 16, 20)),
      current_lba          |-> LE(Slice(d, 24, 32)),
      backup_lba           |-> LE(Slice(d, 32, 40)),
      first_usable_lba     |-> LE(Slice(d, 40, 48)),
      last_usable_lba      |-> LE(Slice(d, 48, 56)),
      disk_guid            |-> Slice(d, 56, 72),
      part_entry_start_lba |-> LE(Slice(d, 72, 80)),
      num_part_entries     |-> LE(Slice(d, 80, 84)),
      part_entry_size      |-> LE(Slice(d, 84, 88)),
      crc32_part_array     |-> LE(Slice(d, 88, 92)) ]

\* uuid.UUID(bytes_le=b): the first three fields are byte-swapped.
UuidLe(b) ==
    << b[4], b[3], b[2], b[1], b[6], b[5], b[8], b[7] >> \o SubSeq(b, 9, 16)

\* The checks of read_header on the unpacked header h.
CheckHeader(h) ==
    IF h.signature # SIGNATURE THEN [err |-> "GPTError", header |-> h]
    ELSE IF h.revision # REVISION THEN [err |-> "GPTError", header |-> h]
    ELSE IF h.header_size < MinHeaderSize THEN [err |-> "GPTError", header |-> h]
    ELSE [err |-> NoErr, header |-> [h EXCEPT !.disk_guid = UuidLe(h.disk_guid)]]

\* struct.unpack(fmt, data) of read_header: the length must be HeaderLen.
UnpackChecked(d) ==
    IF Len(d) # HeaderLen
      THEN [err |-> "struct.error", header |-> <<>>]
      ELSE CheckHeader(UnpackHeader(d))

\* read_header(fp): the header after the first sector, or the error raised.
read_header(data) ==
    UnpackChecked(Slice(data, 1 * LbaSize, 1 * LbaSize + HeaderLen))

RECURSIVE Utf16Units(_)
\* bytes.decode('utf-16') of a name field without byte-order mark: one code
\* unit per little-endian byte pair.
Utf16Units(b) ==
    IF Len(b) < 2 THEN <<>>
    ELSE <<b[1] + 256 * b[2]>> \o Utf16Units(SubSeq(b, 3, Len(b)))

RECURSIVE UntilNul(_)
\* s.split('\0', 1)[0]
UntilNul(s) ==
    IF s = <<>> \/ s[1] = 0 THEN <<>> ELSE <<s[1]>> \o UntilNul(Tail(s))

ZeroGuid == [i \in 1..16 |-> 0]

\* struct.unpack of GPT_PARTITION_FORMAT on exactly EntryLen bytes, + (idx,).
UnpackPartition(d, idx) ==
    [ type      |-> Slice(d, 0, 16),
      unique    |-> Slice(d, 16, 32),
      first_lba |-> LE(Slice(d, 32, 40)),
      last_lba  |-> LE(Slice(d, 40, 48)),
      flags     |-> LE(Slice(d, 48, 56)),
      name      |-> Slice(d, 56, 56 + NameLen),
      index     |-> idx ]

\* The decoded entry read_partitions yields for the unpacked entry p.
DecodePart(p) ==
    [p EXCEPT !.type = UuidLe(p.type),
              !.unique = UuidLe(p.unique),
              !.name = UntilNul(Utf16Units(p.name))]

\* Mutant of YieldPart: an unused entry ends the loop (break, not continue).
YieldPart_BreaksOnUnused(p, rest) ==
    IF p.type = ZeroGuid THEN [err |-> NoErr, parts |-> <<>>]
    ELSE [err |-> rest.err, parts |-> <<DecodePart(p)>> \o rest.parts]

\* One round of the loop: entry p, then the rest of the loop.
YieldPart(p, rest) ==
    IF p.type = ZeroGuid THEN rest
    ELSE [err |-> rest.err, parts |-> <<DecodePart(p)>> \o rest.parts]

RECURSIVE ReadParts(_, _, _, _)
\* The loop of read_partitions from entry idx with the stream at pos: the
\* entries yielded, or the error raised by struct.unpack.
ReadParts(data, header, idx, pos) ==
    IF idx > header.num_part_entries THEN [err |-> NoErr, parts |-> <<>>]
    ELSE LET Entry(d) ==
               IF Len(d) < EntryLen THEN [err |-> NoErr, parts |-> <<>>]
               ELSE IF Len(d) # EntryLen
                 THEN [err |-> "struct.error", parts |-> <<>>]
               ELSE YieldPart(UnpackPartition(d, idx),
                              ReadParts(data, header, idx + 1, pos + Len(d)))
         IN  Entry(Slice(data, pos, pos + header.part_entry_size))

read_partitions(data, header) ==
    ReadParts(data, header, 1, header.part_entry_start_lba * LbaSize)

\* Partition.__init__ / Partition.from_gpt
Partition(part) ==
    [ name       |-> part.name,
      flags      |-> part.flags,
      first_byte |-> SectorBytes * part.first_lba,
      last_byte  |-> SectorBytes * part.last_lba,
      unique     |-> part.unique,
      type       |-> part.type ]

\* Partition.contains_byte
contains_byte(p, idx) ==
    SectorBytes * p.first_byte <= idx /\ idx < SectorBytes * p.last_byte

\* The string "N/A".
NotAvailable == <<78, 47, 65>>

RECURSIVE FirstHolding(_, _, _)
\* The loop of get_partition over snapshot.values(), names being the keys in
\* the dict's order.
FirstHolding(snapshot, names, byte) ==
    IF names = <<>> THEN NotAvailable
    ELSE IF /\ snapshot[names[1]].first_byte <= byte
            /\ byte < snapshot[names[1]].last_byte
      THEN snapshot[names[1]].name
      ELSE FirstHolding(snapshot, Tail(names), byte)

\* get_partition(byte); names: the keys of READS[-1] in insertion order.
get_partition(byte, reads, names) ==
    IF reads = <<>> THEN NotAvailable
    ELSE FirstHolding(reads[Len(reads)], names, byte)

\* {i.name: Partition.from_gpt(i) for i in parts}: the last entry of a name wins.
SnapshotOf(parts) ==
    [ n \in {parts[i].name : i \in DOMAIN parts} |->
        LET k == CHOOSE i \in DOMAIN parts :
                   /\ parts[i].name = n
                   /\ \A j \in DOMAIN parts : parts[j].name = n => j <= i
        IN  Partition(parts[k]) ]

\* Mutant of AppendSnapshot: the history is replaced by the new snapshot.
AppendSnapshot_Replaces(ps, reads) ==
    IF ps.err # NoErr THEN [err |-> ps.err, READS |-> reads]
    ELSE [err |-> NoErr, READS |-> <<SnapshotOf(ps.parts)>>]

\* READS.append({...}) once read_partitions returned ps.
AppendSnapshot(ps, reads) ==
    IF ps.err # NoErr THEN [err |-> ps.err, READS |-> reads]
    ELSE [err |-> NoErr, READS |-> Append(reads, SnapshotOf(ps.parts))]

\* parse after read_header returned h.
ParseParts(data, h, reads) ==
    IF h.err # NoErr THEN [err |-> h.err, READS |-> reads]
    ELSE AppendSnapshot(read_partitions(data, h.header), reads)

\* parse(data, offset): the new READS, or the error raised (READS unchanged).
parse(data, offset, reads) ==
    IF offset # 0 THEN [err |-> NoErr, READS |-> reads]
    ELSE ParseParts(data, read_header(data), reads)

(***************************************************************************)
(* src/injector.py : the rules.                                            *)
(*                                                                         *)
(* A rule is a record                                                      *)
(*   [ replace |-> [source, value, filename, start, length],               *)
(*     trigger |-> [type, byte, value, count, partition],                  *)
(*     initial_num_gpts, part ]                                            *)
(* whose class is INJECT_TYPES[trigger.type].  part is <<>> for None and   *)
(* <<p>> for a Partition p.                                                *)
(***************************************************************************)
Raise(e, v) == [err |-> e, val |-> v]
Return(v) == [err |-> NoErr, val |-> v]

\* INJECT_TYPES.get(trigger['type'])
InjectType(type) ==
    IF type = "partition_replace" THEN "PartitionReplaceInject"
    ELSE IF type = "byte_read_count" THEN "ByteTriggerInject"
    ELSE "None"

Class(rule) == InjectType(rule.trigger.type)

\* ByteTriggerInject.init_trigger; BaseInject.init_trigger for the other class.
init_trigger(trigger) ==
    IF InjectType(trigger.type) = "ByteTriggerInject"
      THEN IF trigger.type = "read_count"
             THEN [trigger EXCEPT !.count = 0]
             ELSE trigger
      ELSE trigger

\* BaseInject.__init__ / PartitionReplaceInject.__init__
NewInject(replace, trigger, reads) ==
    [ replace          |-> replace,
      trigger          |-> init_trigger(trigger),
      initial_num_gpts |-> IF InjectType(trigger.type) = "PartitionReplaceInject"
                             THEN Len(reads) ELSE NoKey,
      part             |-> <<>> ]

\* BaseInject.byte / ByteTriggerInject.byte
Byte(rule) ==
    IF Class(rule) = "ByteTriggerInject" THEN rule.trigger.byte ELSE 0 - 1

\* Mutant of ReadSource: a file that cannot be opened reads as empty.
ReadSource_MissingIsEmpty(replace, offset, length, files) ==
    IF replace.source = "str" THEN Return(replace.value)
    ELSE IF replace.source = "file" THEN
        IF replace.filename \notin DOMAIN files THEN Return(<<>>)
        ELSE LET start == IF replace.start = NoKey THEN offset ELSE replace.start
                 n     == IF replace.length = NoKey THEN length ELSE replace.length
             IN  Return(Slice(files[replace.filename], start, start + n))
    ELSE Raise("TypeError", <<>>)

\* BaseInject.read: the replacement content, or the error raised.
ReadSource(replace, offset, length, files) ==
    IF replace.source = "str" THEN Return(replace.value)
    ELSE IF replace.source = "file" THEN
        IF replace.filename \notin DOMAIN files THEN Raise("IOError", <<>>)
        ELSE LET start == IF replace.start = NoKey THEN offset ELSE replace.start
                 n     == IF replace.length = NoKey THEN length ELSE replace.length
             IN  Return(Slice(files[replace.filename], start, start + n))
    ELSE Raise("TypeError", <<>>)      \* self.replace('source'): a dict is called

\* Mutant of Splice: post = data[len(pre):length], the replaced bytes kept.
Splice_KeepsReplaced(pre, injecting, data, length) ==
    pre \o injecting \o Slice(data, Len(pre), length)

\* "%s%s%s" % (pre, injecting, post) with post = data[len(pre)+len(injecting):length]
Splice(pre, injecting, data, length) ==
    pre \o injecting \o Slice(data, Len(pre) + Len(injecting), length)

\* Mutant of SpliceRead: the replacement is not cut to length - len(pre).
SpliceRead_Uncut(rule, pre, rd, length, data) ==
    IF rd.err # NoErr THEN [err |-> rd.err, val |-> <<>>, rule |-> rule]
    ELSE [err |-> NoErr, rule |-> rule,
          val |-> pre \o rd.val \o Slice(data, Len(pre) + Len(rd.val), length)]

\* BaseInject.modify after pre was cut and self.read returned rd.
SpliceRead(rule, pre, rd, length, data) ==
    IF rd.err # NoErr THEN [err |-> rd.err, val |-> <<>>, rule |-> rule]
    ELSE [err |-> NoErr, rule |-> rule,
          val |-> Splice(pre, Slice(rd.val, 0, length - Len(pre)), data, length)]

\* BaseInject.modify
BaseModify(rule, offset, length, data, files) ==
    SpliceRead(rule, Slice(data, 0, Byte(rule) - offset),
               ReadSource(rule.replace, offset, length, files), length, data)

\* The backfill of PartitionReplaceInject.modify.
Backfill(modified, length, data) ==
    IF Len(modified) < length
      THEN modified \o SliceFrom(data, Len(modified))
      ELSE modified

\* PartitionReplaceInject.modify
PartitionModify(rule, offset, length, data, files) ==
    LET rel == offset - rule.part[1].first_byte
        r1  == [rule EXCEPT !.replace.start = rel]
    IN  IF rule.replace.filename \notin DOMAIN files
          THEN [err |-> "IOError", val |-> <<>>, rule |-> r1]
          ELSE [err |-> NoErr, rule |-> r1,
                val |-> Backfill(Slice(files[rule.replace.filename], rel, rel + length),
                                 length, data)]

\* inject.modify(offset, length, data), dispatched on the rule's class.
Modify(rule, offset, length, data, files) ==
    IF Class(rule) = "PartitionReplaceInject"
      THEN PartitionModify(rule, offset, length, data, files)
      ELSE BaseModify(rule, offset, length, data, files)

\* Mutant of Gpt: the newest snapshot, not the one of the birth generation.
Gpt_Latest(rule, reads) ==
    IF Len(reads) = rule.initial_num_gpts THEN Return(<<>>)
    ELSE IF rule.initial_num_gpts < Len(reads)
      THEN Return(<<reads[Len(reads)]>>)
      ELSE Raise("IndexError", <<>>)

\* PartitionReplaceInject.gpt: <<>> for None, <<snapshot>> otherwise.
Gpt(rule, reads) ==
    IF Len(reads) = rule.initial_num_gpts THEN Return(<<>>)
    ELSE IF rule.initial_num_gpts < Len(reads)
      THEN Return(<<reads[rule.initial_num_gpts + 1]>>)
      ELSE Raise("IndexError", <<>>)

\* self.trigger('partition'): the trigger dict is called, not subscripted.
TriggerCall(trigger, key) == Raise("TypeError", <<>>)

\* dict.get(key): <<>> for None.
DictGet(d, key) == IF key \in DOMAIN d THEN <<d[key]>> ELSE <<>>

\* PartitionReplaceInject.right_byte from the assignment of self.part on.
PartitionRange(rule, offset, length) ==
    IF /\ rule.part # <<>>
       /\ rule.part[1].first_byte <= offset
       /\ offset < rule.part[1].last_byte
      THEN IF offset <= rule.part[1].first_byte
              /\ rule.part[1].first_byte < offset + length
             THEN IF rule.trigger.count = NoKey
                    THEN [err |-> "KeyError", val |-> FALSE, rule |-> rule]
                    ELSE [err |-> NoErr, val |-> TRUE,
                          rule |-> [rule EXCEPT !.trigger.count = @ + 1]]
             ELSE [err |-> NoErr, val |-> TRUE, rule |-> rule]
      ELSE [err |-> NoErr, val |-> FALSE, rule |-> rule]

\* self.part = self.gpt.get(self.trigger('partition')), k the argument.
ResolvePart(rule, snapshot, k, offset, length) ==
    IF k.err # NoErr THEN [err |-> k.err, val |-> FALSE, rule |-> rule]
    ELSE PartitionRange([rule EXCEPT !.part = DictGet(snapshot, k.val)],
                        offset, length)

\* PartitionReplaceInject.right_byte, g the value of self.gpt.
PartitionRightByte(rule, g, offset, length) ==
    IF g.err # NoErr THEN [err |-> g.err, val |-> FALSE, rule |-> rule]
    ELSE IF g.val # <<>> /\ DOMAIN g.val[1] # {}
      THEN ResolvePart(rule, g.val[1], TriggerCall(rule.trigger, "partition"),
                       offset, length)
      ELSE PartitionRange(rule, offset, length)

\* right_byte(offset, length), dispatched on the rule's class: the answer, the
\* rule after the call, or the error raised.
right_byte(rule, offset, length, reads) ==
    IF Class(rule) = "PartitionReplaceInject"
      THEN PartitionRightByte(rule, Gpt(rule, reads), offset, length)
      ELSE [err |-> NoErr,
            val |-> offset <= Byte(rule) /\ Byte(rule) < offset + length,
            rule |-> rule]

\* Mutant of triggered: the count is compared after it was advanced.
triggered_AfterAdvance(rule) ==
    IF rule.trigger.count = NoKey
      THEN [err |-> "KeyError", val |-> FALSE, rule |-> rule]
    ELSE IF Class(rule) = "PartitionReplaceInject"
      THEN [err |-> NoErr, val |-> rule.trigger.count > rule.trigger.value,
            rule |-> rule]
      ELSE [err |-> NoErr, val |-> rule.trigger.count + 1 >= rule.trigger.value,
            rule |-> [rule EXCEPT !.trigger.count = @ + 1]]

\* The property triggered, dispatched on the rule's class.
triggered(rule) ==
    IF rule.trigger.count = NoKey
      THEN [err |-> "KeyError", val |-> FALSE, rule |-> rule]
    ELSE IF Class(rule) = "PartitionReplaceInject"
      THEN [err |-> NoErr, val |-> rule.trigger.count > rule.trigger.value,
            rule |-> rule]
      ELSE LET read_count == rule.trigger.count
           IN  [err |-> NoErr, val |-> read_count >= rule.trigger.value,
                rule |-> [rule EXCEPT !.trigger.count = @ + 1]]

(***************************************************************************)
(* src/injector.py : Injector.                                             *)
(***************************************************************************)
\* Mutant of Keep: the comprehension collects the rules in reverse.
Keep_Reversed(i, r, rest) ==
    [err |-> rest.err, rules |-> rest.rules,
     idx |-> rest.idx \o (IF r.val THEN <<i>> ELSE <<>>)]

\* One element of a list comprehension: rule i answered r, rest is the
\* comprehension over the rules after it.
Keep(i, r, rest) ==
    [err |-> rest.err, rules |-> rest.rules,
     idx |-> (IF r.val THEN <<i>> ELSE <<>>) \o rest.idx]

RECURSIVE SameByte(_, _, _, _, _)
\* same_byte = [i for i in same_path if i.right_byte(offset, length)] from
\* rule i on: the rules after the calls, the indices kept, the error raised.
SameByte(rules, i, offset, length, reads) ==
    IF i > Len(rules) THEN [err |-> NoErr, rules |-> rules, idx |-> <<>>]
    ELSE LET Step(r) ==
               IF r.err # NoErr
                 THEN [err |-> r.err, rules |-> [rules EXCEPT ![i] = r.rule],
                       idx |-> <<>>]
                 ELSE Keep(i, r, SameByte([rules EXCEPT ![i] = r.rule], i + 1,
                                          offset, length, reads))
         IN  Step(right_byte(rules[i], offset, length, reads))

RECURSIVE Triggered(_, _, _)
\* [i for i in same_byte if i.triggered] from position k of same_byte on.
Triggered(rules, same_byte, k) ==
    IF k > Len(same_byte) THEN [err |-> NoErr, rules |-> rules, idx |-> <<>>]
    ELSE LET i == same_byte[k]
             Step(t) ==
               IF t.err # NoErr
                 THEN [err |-> t.err, rules |-> [rules EXCEPT ![i] = t.rule],
                       idx |-> <<>>]
                 ELSE Keep(i, t, Triggered([rules EXCEPT ![i] = t.rule],
                                           same_byte, k + 1))
         IN  Step(triggered(rules[i]))

\* Mutant of TriggeredOf: triggered is asked of every rule of the path.
TriggeredOf_EveryRule(sb) ==
    IF sb.err # NoErr
      THEN [err |-> sb.err, rules |-> sb.rules, idx |-> <<>>, same_byte |-> sb.idx]
      ELSE LET Out(tr) == [err |-> tr.err, rules |-> tr.rules, idx |-> tr.idx,
                           same_byte |-> sb.idx]
           IN  Out(Triggered(sb.rules, [k \in 1..Len(sb.rules) |-> k], 1))

\* Injector.get_injects once same_byte (sb) is built.
TriggeredOf(sb) ==
    IF sb.err # NoErr \/ sb.idx = <<>>
      THEN [err |-> sb.err, rules |-> sb.rules, idx |-> <<>>, same_byte |-> sb.idx]
      ELSE LET Out(tr) == [err |-> tr.err, rules |-> tr.rules, idx |-> tr.idx,
                           same_byte |-> sb.idx]
           IN  Out(Triggered(sb.rules, sb.idx, 1))

\* Injector.get_injects, for the rule list same_path of the path.
get_injects(same_path, length, offset, reads) ==
    IF same_path = <<>>
      THEN [err |-> NoErr, rules |-> same_path, idx |-> <<>>, same_byte |-> <<>>]
      ELSE TriggeredOf(SameByte(same_path, 1, offset, length, reads))

\* One round of the loop of handle: modify returned m, rest is the loop after.
Folded(m, rest) ==
    [err |-> rest.err, rules |-> rest.rules, data |-> rest.data,
     steps |-> <<m.val>> \o rest.steps]

RECURSIVE Fold(_, _, _, _, _, _, _)
\* The loop of Injector.handle from position k of injects on: the rules after
\* it, the buffer, the buffer after each modify (steps), the error raised.
Fold(rules, injects, k, offset, length, data, files) ==
    IF k > Len(injects)
      THEN [err |-> NoErr, rules |-> rules, data |-> data, steps |-> <<>>]
    ELSE LET i == injects[k]
             Step(m) ==
               IF m.err # NoErr
                 THEN [err |-> m.err, rules |-> [rules EXCEPT ![i] = m.rule],
                       data |-> data, steps |-> <<>>]
                 ELSE Folded(m, Fold([rules EXCEPT ![i] = m.rule], injects, k + 1,
                                     offset, length, m.val, files))
         IN  Step(Modify(rules[i], offset, length, data, files))

\* Mutant of HandleInjects: the loop's results are dropped, raw is returned.
HandleInjects_ReturnsRaw(g, length, offset, data, files) ==
    IF g.err # NoErr
      THEN [err |-> g.err, rules |-> g.rules, data |-> <<>>, steps |-> <<>>,
            injects |-> <<>>, same_byte |-> g.same_byte]
      ELSE LET Out(f) == [err |-> f.err, rules |-> f.rules,
                          data |-> IF f.err = NoErr THEN data ELSE <<>>,
                          steps |-> f.steps, injects |-> g.idx,
                          same_byte |-> g.same_byte]
           IN  Out(Fold(g.rules, g.idx, 1, offset, length, data, files))

\* Injector.handle once get_injects returned g.
HandleInjects(g, length, offset, data, files) ==
    IF g.err # NoErr
      THEN [err |-> g.err, rules |-> g.rules, data |-> <<>>, steps |-> <<>>,
            injects |-> <<>>, same_byte |-> g.same_byte]
      ELSE LET Out(f) == [err |-> f.err, rules |-> f.rules,
                          data |-> IF f.err = NoErr THEN f.data ELSE <<>>,
                          steps |-> f.steps, injects |-> g.idx,
                          same_byte |-> g.same_byte]
           IN  Out(Fold(g.rules, g.idx, 1, offset, length, data, files))

\* Injector.handle / inject, for the rule list same_path of the path.
handle(same_path, length, offset, data, reads, files) ==
    HandleInjects(get_injects(same_path, length, offset, reads),
                  length, offset, data, files)

\* parse_gpt(func): the wrapper, given the buffer func returned.
parse_gpt(data, offset, reads) ==
    LET Out(p) == [err |-> p.err, READS |-> p.READS, val |-> data]
    IN  Out(parse(data, offset, reads))

(***************************************************************************)
(* Inputs: disk images, side files, rule configurations, reads.            *)
(***************************************************************************)
Zeros(n) == [i \in 1..n |-> 0]
Fill(n, b) == [i \in 1..n |-> b]

RECURSIVE Enc(_, _)
\* struct.pack('<L' / '<Q'): n in w little-endian bytes.
Enc(n, w) == IF w = 0 THEN <<>> ELSE <<n % 256>> \o Enc(n \div 256, w - 1)

RECURSIVE Utf16Bytes(_)
Utf16Bytes(units) ==
    IF units = <<>> THEN <<>>
    ELSE <<units[1] % 256, units[1] \div 256>> \o Utf16Bytes(Tail(units))

HeaderBytes(sig, rev, hsize, start, num, esize) ==
    sig \o rev \o Enc(hsize, 4) \o Zeros(4) \o Zeros(4)
        \o Enc(1, 8) \o Enc(0, 8) \o Enc(0, 8) \o Enc(0, 8)
        \o Fill(16, 1) \o Enc(start, 8) \o Enc(num, 4) \o Enc(esize, 4) \o Zeros(4)

EntryBytes(type, first_lba, last_lba, name) ==
    type \o Fill(16, 2) \o Enc(first_lba, 8) \o Enc(last_lba, 8) \o Enc(0, 8)
         \o Utf16Bytes(name) \o Zeros(NameLen - 2 * Len(name))

ESP == <<69, 83, 80>>

DiskOf(header, entries) ==
    Zeros(LbaSize) \o header \o Zeros(LbaSize - Len(header)) \o entries

EspEntry == EntryBytes(Fill(16, 3), 2, 4, ESP)

\* The same table after the partition was moved to [2048, 3072).
MovedEntry == EntryBytes(Fill(16, 3), 4, 6, ESP)

GoodDisk == DiskOf(HeaderBytes(SIGNATURE, REVISION, 92, 2, 1, 128), EspEntry)
MovedDisk == DiskOf(HeaderBytes(SIGNATURE, REVISION, 92, 2, 1, 128), MovedEntry)
BadSigDisk ==
    DiskOf(HeaderBytes(Fill(8, 88), REVISION, 92, 2, 1, 128), EspEntry)
BadRevDisk ==
    DiskOf(HeaderBytes(SIGNATURE, <<0, 0, 2, 0>>, 92, 2, 1, 128), EspEntry)
SmallHeaderDisk ==
    DiskOf(HeaderBytes(SIGNATURE, REVISION, 91, 2, 1, 128), EspEntry)
ShortDisk == Slice(GoodDisk, 0, 600)

DATA == <<68, 65, 84, 65>>

\* A table with no entry: its snapshot is the empty dict.
EmptyDisk == DiskOf(HeaderBytes(SIGNATURE, REVISION, 92, 2, 0, 128), <<>>)

\* An unused entry that still carries the name ESP, then the partition DATA.
DataDisk ==
    DiskOf(HeaderBytes(SIGNATURE, REVISION, 92, 2, 2, 128),
           EntryBytes(ZeroGuid, 8, 9, ESP) \o EntryBytes(Fill(16, 3), 4, 6, DATA))

DiskLen == Len(GoodDisk)

Letters == [i \in 1..10 |-> 64 + i]

Files ==
    [ f \in {"shadow", "side"} |->
        IF f = "side" THEN [i \in 1..16 |-> 96 + i] ELSE Fill(600, 83) ]

Paths == {"/disk", "/other"}

\* The reads of the device image.
DiskReads ==
    { [offset |-> 0, length |-> 10, raw |-> Letters],
      [offset |-> 0, length |-> 10, raw |-> Slice(Letters, 0, 3)],
      [offset |-> 3, length |-> 4, raw |-> Slice(Letters, 3, 7)],
      [offset |-> 3, length |-> 4, raw |-> Slice(Letters, 3, 5)],
      [offset |-> 6, length |-> 4, raw |-> Slice(Letters, 6, 10)],
      [offset |-> 0, length |-> DiskLen, raw |-> GoodDisk],
      [offset |-> 0, length |-> DiskLen, raw |-> MovedDisk],
      [offset |-> 0, length |-> DiskLen, raw |-> BadSigDisk],
      [offset |-> 0, length |-> DiskLen, raw |-> BadRevDisk],
      [offset |-> 0, length |-> DiskLen, raw |-> SmallHeaderDisk],
      [offset |-> 0, length |-> DiskLen, raw |-> ShortDisk],
      [offset |-> 0, length |-> Len(EmptyDisk), raw |-> EmptyDisk],
      [offset |-> 0, length |-> Len(DataDisk), raw |-> DataDisk],
      [offset |-> 1024, length |-> 512, raw |-> Fill(512, 65)] }

\* The reads of a second, small file.
OtherReads ==
    { [offset |-> 0, length |-> 10, raw |-> Letters],
      [offset |-> 3, length |-> 4, raw |-> Slice(Letters, 3, 7)],
      [offset |-> 6, length |-> 4, raw |-> Slice(Letters, 6, 10)] }

ReadInputs(path) == IF path = "/disk" THEN DiskReads ELSE OtherReads

Rep(source, value, filename) ==
    [source |-> source, value |-> value, filename |-> filename,
     start |-> NoKey, length |-> NoKey]

ByteTrig(byte, value, count) ==
    [type |-> "byte_read_count", byte |-> byte, value |-> value,
     count |-> count, partition |-> <<>>]

PartTrig(type, name, value, count) ==
    [type |-> type, byte |-> NoKey, value |-> value,
     count |-> count, partition |-> name]

DiskConfigs ==
    { [replace |-> Rep("str", Fill(3, 88), ""), trigger |-> ByteTrig(5, 1, 0)],
      [replace |-> Rep("str", Fill(8, 88), ""), trigger |-> ByteTrig(5, 2, 0)],
      [replace |-> Rep("str", Fill(3, 88), ""), trigger |-> ByteTrig(5, 0, NoKey)],
      [replace |-> Rep("str", Fill(1, 88), ""), trigger |-> ByteTrig(512, 0, 0)],
      [replace |-> Rep("file", <<>>, "side"), trigger |-> ByteTrig(5, 0, 0)],
      [replace |-> Rep("file", <<>>, "missing"), trigger |-> ByteTrig(5, 0, 0)],
      [replace |-> Rep("file", <<>>, "shadow"),
       trigger |-> PartTrig("partition_replace", ESP, 1, 0)],
      [replace |-> Rep("str", Fill(3, 88), ""),
       trigger |-> PartTrig("read_count", <<>>, 0, NoKey)] }

OtherConfigs ==
    { [replace |-> Rep("str", Fill(3, 88), ""), trigger |-> ByteTrig(5, 1, 0)] }

RuleConfigs(path) == IF path = "/disk" THEN DiskConfigs ELSE OtherConfigs

(***************************************************************************)
(* The state machine.                                                      *)
(***************************************************************************)
VARIABLES
    injects,    \* Injector.injects: path -> list of rules (<<>>: no rule)
    READS,      \* gpt.READS: the list of snapshots
    op,         \* the last call, its arguments and its outcome
    everFired,  \* history: the rules <<path, index>> that modified a buffer
    decoded,    \* a decoder run: the stream given to gpt.parse and its outcome
    logged      \* a call through a logs wrapper: its configuration and trail

vars == <<injects, READS, op, everFired, decoded, logged>>

\* op.injects: the rules get_injects returned; op.before: the trigger counts of the path's rules before the call;
\* op.gens: the generation count before the call; op.stage: the part of the
\* read that raised op.err ("done": none); op.final: the buffer inject
\* returned; op.steps: the buffer after each modify; op.fired: the rules that
\* modified it; op.same_byte: the rules whose right_byte answered True.
NoOp ==
    [ call |-> "none", path |-> "", offset |-> 0, length |-> 0, raw |-> <<>>,
      err |-> NoErr, stage |-> "done", final |-> <<>>, steps |-> <<>>,
      fired |-> <<>>, same_byte |-> <<>>, injects |-> <<>>, before |-> <<>>,
      gens |-> 0 ]

\* No decoder run and no wrapped call: the injector is what runs.
NoRun == [pc |-> "none"]

Counts(rules) == [i \in DOMAIN rules |-> rules[i].trigger.count]

RECURSIVE SumLen(_, _)
SumLen(f, S) ==
    IF S = {} THEN 0
    ELSE LET x == CHOOSE x \in S : TRUE IN Len(f[x]) + SumLen(f, S \ {x})

\* Injector.__init__ with no injections; gpt.READS = [].
Init ==
    /\ injects = [p \in Paths |-> <<>>]
    /\ READS = <<>>
    /\ op = NoOp
    /\ everFired = {}
    /\ decoded = NoRun
    /\ logged = NoRun

\* Injector.add_inject(path, replace, trigger)
AddInject(path, cfg) ==
    /\ SumLen(injects, Paths) < MaxRules
    /\ IF InjectType(cfg.trigger.type) = "None"
         THEN /\ injects' = injects
              /\ op' = [NoOp EXCEPT !.call = "add_inject", !.path = path,
                                    !.err = "TypeError", !.stage = "add_inject"]
         ELSE /\ injects' = [injects EXCEPT
                   ![path] = Append(@, NewInject(cfg.replace, cfg.trigger, READS))]
              /\ op' = [NoOp EXCEPT !.call = "add_inject", !.path = path]
    /\ UNCHANGED <<READS, everFired, decoded, logged>>

\* The state after a read: inject returned h, then parse_gpt returned p.
ReadDone(path, offset, length, raw, h, p) ==
    /\ injects' = [injects EXCEPT ![path] = h.rules]
    /\ READS' = IF h.err = NoErr THEN p.READS ELSE READS
    /\ op' = [ call |-> "read", path |-> path, offset |-> offset,
               length |-> length, raw |-> raw,
               err |-> IF h.err # NoErr THEN h.err ELSE p.err,
               stage |-> IF h.err # NoErr THEN "inject"
                         ELSE IF p.err # NoErr THEN "parse_gpt"
                         ELSE "done",
               final |-> h.data, steps |-> h.steps,
               fired |-> SubSeq(h.injects, 1, Len(h.steps)),
               same_byte |-> h.same_byte, injects |-> h.injects,
               before |-> Counts(injects[path]), gens |-> Len(READS) ]
    /\ everFired' = everFired \cup
                       {<<path, h.injects[k]>> : k \in 1..Len(h.steps)}
    /\ UNCHANGED <<decoded, logged>>

\* parse_gpt around the function that returns inject(path, length, offset, raw).
Observed(path, offset, length, raw, h) ==
    ReadDone(path, offset, length, raw, h, parse_gpt(h.data, offset, READS))

\* The read handler: the host read returned raw; inject(path, length, offset,
\* raw) gives the buffer returned to the caller, which parse_gpt observes.
Read(path, offset, length, raw) ==
    /\ \A i \in DOMAIN injects[path] : injects[path][i].trigger.count < MaxCount
    /\ offset = 0 => Len(READS) < MaxGen
    /\ Observed(path, offset, length, raw,
                handle(injects[path], length, offset, raw, READS, Files))

Next ==
    \/ \E path \in Paths : \E cfg \in RuleConfigs(path) : AddInject(path, cfg)
    \/ \E path \in Paths : \E r \in ReadInputs(path) :
          Read(path, r.offset, r.length, r.raw)

Spec == Init /\ [][Next]_vars

(***************************************************************************)
(* The decoder on its own: gpt.parse applied to streams built from a       *)
(* header and an array of entries, the end of the stream cut off.          *)
(***************************************************************************)
\* An unused entry (all-zero type GUID) that still has a name and LBAs, and
\* two used entries.
EntryKinds == {"unused", "esp", "data"}

KindBytes(kind) ==
    IF kind = "unused" THEN EntryBytes(ZeroGuid, 8, 9, ESP)
    ELSE IF kind = "esp" THEN EspEntry
    ELSE EntryBytes(Fill(16, 3), 4, 6, DATA)

KindName(kind) == IF kind = "data" THEN DATA ELSE ESP

RECURSIVE ArrayBytes(_)
ArrayBytes(kinds) ==
    IF kinds = <<>> THEN <<>>
    ELSE KindBytes(kinds[1]) \o ArrayBytes(Tail(kinds))

\* part_entry_size of the header; the bytes missing from the stream's end.
EntrySizes == {64, 128, 256}
Cuts == {0, 28, 128}

StreamOf(kinds, num, esize, cut) ==
    LET Whole(d) == Slice(d, 0, Len(d) - cut)
    IN  Whole(DiskOf(HeaderBytes(SIGNATURE, REVISION, 92, 2, num, esize),
                     ArrayBytes(kinds)))

Streams ==
    { [pc |-> "input", kinds |-> k, num |-> n, esize |-> e, cut |-> c,
       err |-> NoErr, parts |-> <<>>] :
        k \in UNION {[1..l -> EntryKinds] : l \in 0..MaxEntries},
        n \in 0..MaxEntries, e \in EntrySizes, c \in Cuts }

InitGpt ==
    /\ injects = [p \in Paths |-> <<>>]
    /\ READS = <<>>
    /\ op = NoOp
    /\ everFired = {}
    /\ logged = NoRun
    /\ decoded \in Streams

\* [i for i in read_partitions(fp, header)] of parse, h what read_header gave.
PartsOf(data, h) ==
    IF h.err # NoErr THEN <<>> ELSE read_partitions(data, h.header).parts

\* parse(data, 0) on the stream d.
ParseOf(d) ==
    LET Done(p) ==
          /\ READS' = p.READS
          /\ decoded' = [decoded EXCEPT !.pc = "done", !.err = p.err,
                                        !.parts = PartsOf(d, read_header(d))]
    IN  Done(parse(d, 0, READS))

ParseStream ==
    /\ decoded.pc = "input"
    /\ ParseOf(StreamOf(decoded.kinds, decoded.num, decoded.esize, decoded.cut))
    /\ UNCHANGED <<injects, op, everFired, logged>>

\* The byte indices asked about: around the edges of [1024, 2048) and of
\* [2048, 3072), and around the edges of 512 times the first range.
LookupBytes == {1023, 1024, 2047, 2048, 3071, 3072, 524288, 1048575, 1048576}

\* The keys of the dict parse built from parts, in insertion order.
NamesOf(parts) == [k \in DOMAIN parts |-> parts[k].name]

\* After parse: get_partition(idx), and p.contains_byte(idx) for every
\* Partition p of the newest snapshot.
LookupByte(idx) ==
    /\ decoded.pc = "done"
    /\ decoded' =
          [ pc |-> "looked", idx |-> idx,
            name |-> get_partition(idx, READS, NamesOf(decoded.parts)),
            contains |-> IF READS = <<>> THEN <<>>
                         ELSE [n \in DOMAIN READS[Len(READS)] |->
                                 contains_byte(READS[Len(READS)][n], idx)] ]
    /\ UNCHANGED <<injects, READS, op, everFired, logged>>

NextGpt == ParseStream \/ \E idx \in LookupBytes : LookupByte(idx)

SpecGpt == InitGpt /\ [][NextGpt]_vars

(***************************************************************************)
(* The logs wrappers of src/logger.py and src/passthrough_logging.py: one  *)
(* call through a wrapper, under one logging configuration.                *)
(*                                                                         *)
(* logged.trail is what happened, in order: "func" for the wrapped call    *)
(* running, and the _state of info each time log(info) was called.         *)
(* logged.written is what the sinks recorded: <<sink, _state>>.            *)
(* logged.res is the value of res: its kind and the items it still yields. *)
(***************************************************************************)
\* The wrapped functions that have an offset parameter.
HasOffset(name) == name \in {"read", "write", "scan"}

\* A directory listing.
Listing == <<".", "..", "f">>

\* What the wrapped function returns: read gives bytes, getattr a dict,
\* readdir(path, fh) and scan(path, offset) a generator of a listing.
Produced(name) ==
    IF name \in {"readdir", "scan"} THEN [kind |-> "generator", left |-> Listing]
    ELSE IF name = "read" THEN [kind |-> "bytes", left |-> <<"data">>]
    ELSE [kind |-> "dict", left |-> <<"st_size">>]

\* res after log(info): DBLogger.format runs a generator result of a logged
\* call to its end (info has no buf before the except clause).
Drained(l) ==
    IF /\ l.impl = "logger" /\ l.db /\ l.name \in l.log_calls
       /\ l.state # "error" /\ l.res.kind = "generator"
      THEN [l.res EXCEPT !.left = <<>>]
      ELSE l.res

\* passthrough_logging.logs: a generator result is listed and res becomes an
\* iterator over the list.
Listed(l) ==
    IF l.impl = "passthrough_logging" /\ l.res.kind = "generator"
      THEN [l EXCEPT !.res.kind = "iterator"]
      ELSE l

\* The call is one the configuration asks to log.
Selected(l) == l.log_all \/ l.name \in l.log_calls

\* passthrough_logging.log(info): what is written and the error raised.
PassthroughLog(l) ==
    IF ~Selected(l) THEN [err |-> NoErr, written |-> l.written]
    ELSE IF ~l.db
      THEN [err |-> NoErr,
            written |-> l.written
                          \o (IF l.file THEN <<<<"file", l.state>>>> ELSE <<>>)]
    ELSE IF l.log_all                              \* LOGDB is not defined
      THEN [err |-> "NameError",
            written |-> l.written
                          \o (IF l.file THEN <<<<"file", l.state>>>> ELSE <<>>)]
    ELSE IF l.name \notin {"call", "read", "write"}   \* LOGGERS[info['_call']]
      THEN [err |-> "KeyError",
            written |-> l.written
                          \o (IF l.file THEN <<<<"file", l.state>>>> ELSE <<>>)]
    ELSE [err |-> NoErr,
          written |-> l.written
                        \o (IF l.file THEN <<<<"file", l.state>>>> ELSE <<>>)
                        \o <<<<"db", l.state>>>>]

\* logger.log(info): FileLogger.log, then DBLogger.log.
LoggerLog(l) ==
    IF ~l.db
      THEN [err |-> NoErr,
            written |-> l.written
               \o (IF l.file /\ Selected(l) THEN <<<<"file", l.state>>>> ELSE <<>>)]
    ELSE IF l.name \in l.log_calls /\ ~HasOffset(l.name)   \* info['offset']
      THEN [err |-> "KeyError",
            written |-> l.written
               \o (IF l.file /\ Selected(l) THEN <<<<"file", l.state>>>> ELSE <<>>)]
    ELSE [err |-> NoErr,
          written |-> l.written
             \o (IF l.file /\ Selected(l) THEN <<<<"file", l.state>>>> ELSE <<>>)
             \o (IF Selected(l) THEN <<<<"db", l.state>>>> ELSE <<>>)]

\* log(info) of the wrapper's module.
Log(l) == IF l.impl = "logger" THEN LoggerLog(l) ELSE PassthroughLog(l)

\* info['_state'] = state; log(info) inside the try block: on to pc next, or
\* to the except clause with the error log raised.
LogInTry(l, state, next) ==
    LET Out(r) == [l EXCEPT !.state = state, !.trail = Append(@, state),
                            !.written = r.written,
                            !.res = Drained([l EXCEPT !.state = state]),
                            !.pc = IF r.err = NoErr THEN next ELSE "failed",
                            !.exc = IF r.err = NoErr THEN @ ELSE r.err]
    IN  Out(Log([l EXCEPT !.state = state]))

\* The except clause: info['_state'] = 'error'; log(info); raise.
LogInExcept(l) ==
    LET Out(r) == [l EXCEPT !.state = "error", !.trail = Append(@, "error"),
                            !.written = r.written, !.pc = "done",
                            !.result = "raised",
                            !.exc = IF r.err = NoErr THEN @ ELSE r.err]
    IN  Out(Log([l EXCEPT !.state = "error"]))

LogConfigs ==
    { [impl |-> i, file |-> f, db |-> d, log_all |-> a, log_calls |-> c] :
        i \in {"logger", "passthrough_logging"}, f \in BOOLEAN, d \in BOOLEAN,
        a \in BOOLEAN,
        c \in {{}, {"read"}, {"read", "getattr"}, {"readdir", "scan"}} }

\* init_logging raises when no logger is configured.
Configured(c) == c.impl = "logger" => (c.file \/ c.db)

\* Calling a generator function runs none of its body: it cannot raise.
CanHappen(name, outcome) ==
    name \in {"readdir", "scan"} => outcome = "returns"

CallsOf(names) ==
    { [ impl |-> c.impl, file |-> c.file, db |-> c.db, log_all |-> c.log_all,
        log_calls |-> c.log_calls, name |-> n, outcome |-> o,
        pc |-> "called", state |-> "", trail |-> <<>>, written |-> <<>>,
        result |-> "none", exc |-> NoErr,
        res |-> [kind |-> "none", left |-> <<>>] ] :
        c \in {x \in LogConfigs : Configured(x)},
        n \in names, o \in {"returns", "raises"} }

WrappedCalls ==
    { w \in CallsOf({"read", "getattr", "readdir", "scan"}) :
        CanHappen(w.name, w.outcome) }

InitLogs ==
    /\ injects = [p \in Paths |-> <<>>]
    /\ READS = <<>>
    /\ op = NoOp
    /\ everFired = {}
    /\ decoded = NoRun
    /\ logged \in WrappedCalls

\* wrapper, up to the wrapped call: info is built with _state 'pre-run';
\* passthrough_logging.logs logs it, logger.logs does not.
LogsEnter ==
    /\ logged.pc = "called"
    /\ logged' = IF logged.impl = "logger"
                   THEN [logged EXCEPT !.state = "pre-run", !.pc = "pre"]
                   ELSE LogInTry(logged, "pre-run", "pre")
    /\ UNCHANGED <<injects, READS, op, everFired, decoded>>

\* res = func(*args, **kwargs); calling a generator function runs none of
\* its body, so readdir and scan return.
LogsRun ==
    /\ logged.pc = "pre"
    /\ logged' = IF logged.outcome = "returns"
                   THEN [logged EXCEPT !.trail = Append(@, "func"), !.pc = "ran",
                                       !.res = Produced(logged.name)]
                   ELSE [logged EXCEPT !.trail = Append(@, "func"),
                                       !.pc = "failed", !.exc = "OSError"]
    /\ UNCHANGED <<injects, READS, op, everFired, decoded>>

\* info['_state'] = 'post-run'; log(info); return res
LogsReturn ==
    /\ logged.pc = "ran"
    /\ LET Out(l) == logged' = [l EXCEPT !.pc = IF @ = "failed" THEN @ ELSE "done",
                                         !.result = IF l.pc = "failed"
                                                      THEN @ ELSE "returned"]
       IN  Out(LogInTry(Listed(logged), "post-run", "returning"))
    /\ UNCHANGED <<injects, READS, op, everFired, decoded>>

\* except Exception: the error record, then raise.
LogsExcept ==
    /\ logged.pc = "failed"
    /\ logged' = LogInExcept(logged)
    /\ UNCHANGED <<injects, READS, op, everFired, decoded>>

NextLogs == LogsEnter \/ LogsRun \/ LogsReturn \/ LogsExcept

SpecLogs == InitLogs /\ [][NextLogs]_vars

(***************************************************************************)
(* Vocabulary of the properties.                                           *)
(***************************************************************************)
IsRead == op.call = "read"

\* inject returned a buffer for the last read.
Handled == IsRead /\ op.stage # "inject"

PathRules == injects[op.path]

\* The buffer the k-th modify of the last read was given.
StepIn(k) == IF k = 1 THEN op.raw ELSE op.steps[k - 1]

InWindow(b) == op.offset <= b /\ b < op.offset + op.length

IsByteRule(rule) == Class(rule) = "ByteTriggerInject"
IsPartRule(rule) == Class(rule) = "PartitionReplaceInject"

\* The entry of the rule's partition in its birth-generation snapshot.
BirthPart(rule) ==
    IF rule.initial_num_gpts < Len(READS)
      THEN DictGet(READS[rule.initial_num_gpts + 1], rule.trigger.partition)
      ELSE <<>>

\* Whether a buffer decodes as a GPT.
Decodes(data) == parse(data, 0, <<>>).err = NoErr

InSeq(x, sq) == \E k \in DOMAIN sq : sq[k] = x

(***************************************************************************)
(* C1. When the host read returned exactly `length` bytes, the buffer      *)
(* every modify step of Injector.handle produces, and the buffer handle    *)
(* returns, is `length` bytes long.                                        *)
(***************************************************************************)
C1_LengthInvariant ==
    (IsRead /\ Len(op.raw) = op.length) =>
        /\ \A k \in DOMAIN op.steps : Len(op.steps[k]) = op.length
        /\ Handled => Len(op.final) = op.length

\* Two rules modified a full-length buffer in one read.
C1_Witness ==
    /\ Handled /\ Len(op.raw) = op.length
    /\ Len(op.steps) = 2 /\ op.final # op.raw

(***************************************************************************)
(* C2. The buffer Injector.handle returns is as long as the raw buffer,    *)
(* also when the host read came back short.                                *)
(***************************************************************************)
C2_SameLengthAsRaw ==
    (Handled /\ op.err = NoErr) => Len(op.final) = Len(op.raw)

(***************************************************************************)
(* C3. A splice rule with target byte b in the window, given a buffer of   *)
(* `length` bytes, returns the buffer with the replacement, cut to the     *)
(* room left in the window, written at position b - offset, and every      *)
(* other byte as it was; the two examples of the specification come out    *)
(* as ABCDEXXXIJ and ABCDEXXXXX.                                           *)
(***************************************************************************)
SpliceCorrect(rule, d, out) ==
    LET pos     == Byte(rule) - op.offset
        content == ReadSource(rule.replace, op.offset, op.length, Files).val
        n       == Min(Len(content), op.length - pos)
    IN  /\ Len(out) = op.length
        /\ \A j \in 1..op.length :
              out[j] = IF j <= pos THEN d[j]
                       ELSE IF j <= pos + n THEN content[j - pos]
                       ELSE d[j]

C3_SpliceCorrect ==
    IsRead =>
      /\ \A k \in DOMAIN op.steps :
            (IsByteRule(PathRules[op.fired[k]]) /\ Len(StepIn(k)) = op.length)
               => SpliceCorrect(PathRules[op.fired[k]], StepIn(k), op.steps[k])
      /\ \A k \in DOMAIN op.steps :
            ( /\ StepIn(k) = Letters /\ op.offset = 0 /\ op.length = 10
              /\ PathRules[op.fired[k]].trigger.byte = 5
              /\ PathRules[op.fired[k]].replace.source = "str" )
            => /\ PathRules[op.fired[k]].replace.value = Fill(3, 88)
                  => op.steps[k] = <<65, 66, 67, 68, 69, 88, 88, 88, 73, 74>>
               /\ PathRules[op.fired[k]].replace.value = Fill(8, 88)
                  => op.steps[k] = <<65, 66, 67, 68, 69, 88, 88, 88, 88, 88>>

\* The 8-byte replacement was cut at the window's edge.
C3_Witness ==
    /\ Handled /\ op.raw = Letters /\ op.offset = 0
    /\ op.final = <<65, 66, 67, 68, 69, 88, 88, 88, 88, 88>>

(***************************************************************************)
(* C4. A read whose window holds no target byte and overlaps no resolved   *)
(* partition range of the rules of its path returns the raw buffer.        *)
(***************************************************************************)
Overlaps(part) ==
    part # <<>> /\ op.offset < part[1].last_byte
                /\ part[1].first_byte < op.offset + op.length

C4_NonMatchUnchanged ==
    ( /\ IsRead
      /\ \A i \in DOMAIN PathRules :
            /\ IsByteRule(PathRules[i]) => ~InWindow(PathRules[i].trigger.byte)
            /\ IsPartRule(PathRules[i]) => ~Overlaps(BirthPart(PathRules[i])) )
    => (Handled /\ op.final = op.raw)

(***************************************************************************)
(* C5. A ByteReadCount rule with threshold T >= 1 and count starting at 0. *)
(* Every count of the model starts at 0, so the read that advances count   *)
(* to n is the n-th read whose window holds the target byte.               *)
(*   As claimed: the rule fires on the read that advances count to T.      *)
(*   As the code has it: the rule fires on no read that advances count to  *)
(*   1..T; on a read for which handle returns a buffer it fires exactly    *)
(*   when count was at least T before the read, the first time on the read *)
(*   that advances count to T + 1.                                         *)
(***************************************************************************)
C5_FiresOnTth ==
    IsRead =>
      \A i \in DOMAIN PathRules :
        ( /\ IsByteRule(PathRules[i]) /\ PathRules[i].trigger.value >= 1
          /\ Handled /\ op.err = NoErr /\ InWindow(PathRules[i].trigger.byte)
          /\ op.before[i] = PathRules[i].trigger.value - 1
          /\ PathRules[i].trigger.count = PathRules[i].trigger.value )
        => InSeq(i, op.fired)

C5_FiresAfterT ==
    IsRead =>
      \A i \in DOMAIN PathRules :
        (IsByteRule(PathRules[i]) /\ PathRules[i].trigger.value >= 1
           /\ op.before[i] # NoKey)
        => /\ InSeq(i, op.fired) => op.before[i] >= PathRules[i].trigger.value
           /\ (Handled /\ InWindow(PathRules[i].trigger.byte))
                => /\ PathRules[i].trigger.count = op.before[i] + 1
                   /\ InSeq(i, op.fired)
                        <=> op.before[i] >= PathRules[i].trigger.value

\* The rule of threshold 2 fired on the read that advanced its count to 3.
C5_Witness ==
    /\ Handled
    /\ \E i \in DOMAIN PathRules :
          /\ IsByteRule(PathRules[i]) /\ PathRules[i].trigger.value = 2
          /\ op.before[i] = 2 /\ PathRules[i].trigger.count = 3
          /\ InSeq(i, op.fired)

(***************************************************************************)
(* C6. Once a rule has fired on a matching read, it fires on every later   *)
(* read that matches its byte-range predicate.                             *)
(***************************************************************************)
C6_LevelTriggered ==
    IsRead =>
      \A i \in DOMAIN PathRules :
        ( /\ <<op.path, i>> \in everFired
          /\ IsByteRule(PathRules[i]) => InWindow(PathRules[i].trigger.byte)
          /\ IsPartRule(PathRules[i]) =>
                /\ BirthPart(PathRules[i]) # <<>>
                /\ BirthPart(PathRules[i])[1].first_byte <= op.offset
                /\ op.offset < BirthPart(PathRules[i])[1].last_byte )
        => InSeq(i, op.fired)

(***************************************************************************)
(* C7. A PartitionRelative rule of threshold T whose partition is resolved *)
(* counts the reads that cover first_byte and fires on a matching read     *)
(* exactly when that count, this read included, is greater than T.         *)
(***************************************************************************)
C7_PartitionCounting ==
    IsRead =>
      \A i \in DOMAIN PathRules :
        ( /\ IsPartRule(PathRules[i]) /\ op.before[i] # NoKey
          /\ BirthPart(PathRules[i]) # <<>>
          /\ BirthPart(PathRules[i])[1].first_byte <= op.offset
          /\ op.offset + op.length <= BirthPart(PathRules[i])[1].last_byte )
        => /\ Handled
           /\ PathRules[i].trigger.count =
                 op.before[i]
                   + (IF InWindow(BirthPart(PathRules[i])[1].first_byte)
                        THEN 1 ELSE 0)
           /\ InSeq(i, op.fired)
                <=> PathRules[i].trigger.count > PathRules[i].trigger.value

(***************************************************************************)
(* C8. A read at offset 0 whose delivered bytes do not decode as a GPT     *)
(* raises no error and appends no snapshot.                                *)
(***************************************************************************)
C8_DecodeFailureAbsorbed ==
    (Handled /\ op.offset = 0 /\ ~Decodes(op.final))
    => (op.err = NoErr /\ Len(READS) = op.gens)

(***************************************************************************)
(* C9. On a read at offset 0 the tracker decodes the buffer inject         *)
(* returned: a snapshot is appended exactly when that buffer decodes, it   *)
(* is the snapshot of that buffer, and a rule that overwrote the signature *)
(* of a well-formed table keeps the read from appending one.               *)
(***************************************************************************)
OverwritesSignature(rule) ==
    /\ IsByteRule(rule) /\ rule.replace.source = "str"
    /\ rule.trigger.byte = LbaSize
    /\ rule.replace.value # <<>> /\ rule.replace.value[1] # SIGNATURE[1]

C10_AppendOnly ==
    [][ /\ Len(READS') >= Len(READS)
        /\ Len(READS') <= Len(READS) + 1
        /\ SubSeq(READS', 1, Len(READS)) = READS
        /\ Len(READS') = Len(READS) + 1 =>
              /\ op'.call = "read" /\ op'.offset = 0 /\ op'.err = NoErr
              /\ Decodes(op'.final)
        /\ (op'.call = "read" /\ op'.offset # 0) => READS' = READS
        /\ op'.call # "read" => READS' = READS ]_vars

\* A second, different snapshot was appended behind the first.
C10_Witness ==
    /\ Len(READS) = 2 /\ READS[1] # READS[2]
    /\ IsRead /\ op.offset = 0 /\ op.gens = 1

(***************************************************************************)
(* C12. When a rule that get_injects returned reads its replacement from a *)
(* file that cannot be opened, the read raises the open's error at the     *)
(* inject stage: the rule modifies nothing, no buffer is returned, and the *)
(* tracker sees nothing.                                                   *)
(***************************************************************************)
MissingFile(rule) ==
    /\ rule.replace.filename \notin DOMAIN Files
    /\ IsByteRule(rule) => rule.replace.source = "file"

C12_MissingFileAborts ==
    IsRead =>
      \A k \in DOMAIN op.injects :
        MissingFile(PathRules[op.injects[k]]) =>
          /\ op.stage = "inject" /\ op.err = "IOError"
          /\ ~Handled
          /\ ~InSeq(op.injects[k], op.fired)
          /\ Len(op.steps) < k
          /\ Len(READS) = op.gens

\* A triggered rule behind one that did modify the buffer could not open
\* its file.
C12_Witness ==
    /\ IsRead /\ op.err = "IOError" /\ Len(op.injects) = 2
    /\ Len(op.steps) = 1
    /\ MissingFile(PathRules[op.injects[2]])

(***************************************************************************)
(* C13. get_injects returns the matching, triggered rules of the path in   *)
(* registration order; handle applies them in that order, each to the      *)
(* buffer the one before it returned; where the splices of one read        *)
(* overlap, the returned byte is the one the last-registered rule wrote.   *)
(***************************************************************************)
Increasing(sq) == \A k, l \in DOMAIN sq : k < l => sq[k] < sq[l]

FiredRule(k) == PathRules[op.fired[k]]

Content(rule) == ReadSource(rule.replace, op.offset, op.length, Files).val

\* The splice of the rule writes position j (1-based) of the buffer.
Covers(rule, j) ==
    /\ Byte(rule) - op.offset < j
    /\ j <= Byte(rule) - op.offset
               + Min(Len(Content(rule)), op.length - (Byte(rule) - op.offset))

Writers(j) == {k \in DOMAIN op.fired : Covers(FiredRule(k), j)}

LastWriter(j) == CHOOSE k \in Writers(j) : \A l \in Writers(j) : l <= k

C13_RegistrationOrder ==
    IsRead =>
      /\ Increasing(op.same_byte) /\ Increasing(op.injects)
      /\ \A k \in DOMAIN op.injects : InSeq(op.injects[k], op.same_byte)
      /\ op.fired = SubSeq(op.injects, 1, Len(op.fired))
      /\ Handled =>
            /\ op.fired = op.injects
            /\ op.final = StepIn(Len(op.steps) + 1)
            /\ \A i \in DOMAIN PathRules :
                  IsByteRule(PathRules[i]) =>
                    ( InSeq(i, op.injects)
                        <=> /\ InWindow(PathRules[i].trigger.byte)
                            /\ op.before[i] >= PathRules[i].trigger.value )
      /\ \A k \in DOMAIN op.steps :
            op.steps[k] =
              Modify(FiredRule(k), op.offset, op.length, StepIn(k), Files).val
      /\ ( /\ Handled /\ Len(op.raw) = op.length
           /\ \A k \in DOMAIN op.fired : IsByteRule(FiredRule(k)) )
         => \A j \in 1..op.length :
               op.final[j] =
                 IF Writers(j) = {} THEN op.raw[j]
                 ELSE Content(FiredRule(LastWriter(j)))[
                          j - (Byte(FiredRule(LastWriter(j))) - op.offset)]

\* Two rules wrote byte 5 of one read with different content; the buffer
\* has the later rule's byte.
C13_Witness ==
    /\ Handled /\ Len(op.raw) = op.length /\ op.fired = <<1, 2>>
    /\ Byte(FiredRule(1)) = Byte(FiredRule(2))
    /\ Content(FiredRule(1))[1] # Content(FiredRule(2))[1]
    /\ op.final[Byte(FiredRule(2)) - op.offset + 1] = Content(FiredRule(2))[1]

(***************************************************************************)
(* Partition rules: vocabulary.  READS only grows, so the snapshot of a    *)
(* generation that existed before the last read is the one READS holds.    *)
(***************************************************************************)
\* The rule's birth generation existed before the last read.
BornBefore(rule) == rule.initial_num_gpts < op.gens

\* The rule's partition was in its birth-generation snapshot before the last
\* read.
ResolvedBefore(rule) == BornBefore(rule) /\ BirthPart(rule) # <<>>

PartRulesOfPath == {i \in DOMAIN PathRules : IsPartRule(PathRules[i])}

(***************************************************************************)
(* C14. For a resolved PartitionRelative rule, a read changes the count    *)
(* exactly when its range contains the partition's first_byte, and then by *)
(* one, a read that starts before first_byte included.                     *)
(***************************************************************************)
C14_CountsFirstByteReads ==
    IsRead =>
      \A i \in PartRulesOfPath :
        (ResolvedBefore(PathRules[i]) /\ op.before[i] # NoKey)
        => PathRules[i].trigger.count =
              op.before[i]
                + (IF InWindow(BirthPart(PathRules[i])[1].first_byte)
                     THEN 1 ELSE 0)

(***************************************************************************)
(* C15. A resolved PartitionRelative rule matches a read exactly when the  *)
(* read's range lies within [first_byte, last_byte), and it replaces       *)
(* nothing on a read it does not match.                                    *)
(***************************************************************************)
Within(part) ==
    /\ part[1].first_byte <= op.offset
    /\ op.offset + op.length <= part[1].last_byte

C15_MatchesWithin ==
    IsRead =>
      \A i \in PartRulesOfPath :
        ResolvedBefore(PathRules[i])
        => /\ InSeq(i, op.same_byte) <=> Within(BirthPart(PathRules[i]))
           /\ ~Within(BirthPart(PathRules[i])) => ~InSeq(i, op.fired)

(***************************************************************************)
(* C16. A PartitionRelative rule constructed at generation count g looks   *)
(* at the snapshot of generation g and at no other: while that generation  *)
(* does not exist the rule matches nothing and changes nothing; the entry  *)
(* it holds is one of generation g; and whether its lookup is made (the    *)
(* lookup is what raises TypeError) depends on generation g being there    *)
(* and non-empty, never on the snapshots appended behind it.               *)
(***************************************************************************)
\* The rule's birth-generation snapshot existed before the last read and has
\* entries, so right_byte looks the partition up in it.
LooksUp(rule) ==
    BornBefore(rule) /\ DOMAIN READS[rule.initial_num_gpts + 1] # {}

C16_BirthGeneration ==
    IsRead =>
      /\ \A i \in PartRulesOfPath :
            /\ PathRules[i].initial_num_gpts <= op.gens
            /\ ~BornBefore(PathRules[i]) =>
                  /\ ~InSeq(i, op.same_byte) /\ ~InSeq(i, op.fired)
                  /\ PathRules[i].trigger.count = op.before[i]
                  /\ PathRules[i].part = <<>>
            /\ PathRules[i].part # <<>> =>
                  PathRules[i].part = BirthPart(PathRules[i])
      /\ (op.stage = "inject" /\ op.err = "TypeError")
            <=> \E i \in PartRulesOfPath : LooksUp(PathRules[i])

\* The rule was born at generation 0, whose snapshot is empty; generation 1
\* has the partition ESP at [1024, 2048); a read of that range went through
\* and the rule did not match it.
C16_Witness ==
    /\ Handled /\ op.err = NoErr /\ op.offset = 1024 /\ op.gens = 2
    /\ DOMAIN READS[1] = {} /\ ESP \in DOMAIN READS[2]
    /\ \E i \in PartRulesOfPath :
          /\ PathRules[i].initial_num_gpts = 0
          /\ ~InSeq(i, op.same_byte)

(***************************************************************************)
(* C17. A PartitionRelative rule whose partition name is not in its        *)
(* birth-generation snapshot, the only partition rule of its path: no read *)
(* of the path fails in the rule, the rule never matches, its count stays, *)
(* and it modifies nothing.                                                *)
(***************************************************************************)
C17_AbsentNameNeverMatches ==
    IsRead =>
      \A i \in PartRulesOfPath :
        ( /\ PartRulesOfPath = {i}
          /\ BornBefore(PathRules[i]) /\ BirthPart(PathRules[i]) = <<>> )
        => /\ op.err # "TypeError"
           /\ ~InSeq(i, op.same_byte) /\ ~InSeq(i, op.fired)
           /\ PathRules[i].trigger.count = op.before[i]

(***************************************************************************)
(* C19. A rule built by add_inject from a byte_read_count trigger without  *)
(* a count field has count 0 after construction, and the first read whose  *)
(* window holds its target byte advances the count to 1 and raises         *)
(* nothing in the trigger.                                                 *)
(***************************************************************************)
C19_CountStartsAtZero ==
    /\ (op.call = "add_inject" /\ op.err = NoErr) =>
          LET rule == PathRules[Len(PathRules)]
          IN  IsByteRule(rule) => rule.trigger.count = 0
    /\ IsRead =>
          \A i \in DOMAIN PathRules :
            ( /\ IsByteRule(PathRules[i]) /\ op.before[i] = NoKey
              /\ InWindow(PathRules[i].trigger.byte) )
            => /\ op.err # "KeyError"
               /\ PathRules[i].trigger.count = 1

(***************************************************************************)
(* C21. What a read does to the trigger counts: the rules of the other     *)
(* paths are left as they were; a count changes by one or not at all; a    *)
(* ByteReadCount rule whose target byte is outside the window keeps its    *)
(* count; and a read that matches no rule changes no count.                *)
(***************************************************************************)
\* The window of the read just made holds byte b.
InNewWindow(b) == op'.offset <= b /\ b < op'.offset + op'.length

C21_CountFrame ==
    [][ op'.call = "read" =>
          /\ \A p \in Paths \ {op'.path} : injects'[p] = injects[p]
          /\ DOMAIN injects'[op'.path] = DOMAIN injects[op'.path]
          /\ \A i \in DOMAIN injects[op'.path] :
                /\ \/ injects'[op'.path][i].trigger.count
                         = injects[op'.path][i].trigger.count
                   \/ /\ injects[op'.path][i].trigger.count # NoKey
                      /\ injects'[op'.path][i].trigger.count
                            = injects[op'.path][i].trigger.count + 1
                /\ ( /\ IsByteRule(injects[op'.path][i])
                     /\ ~InNewWindow(injects[op'.path][i].trigger.byte) )
                   => injects'[op'.path][i].trigger.count
                         = injects[op'.path][i].trigger.count
          /\ op'.same_byte = <<>> =>
                \A i \in DOMAIN injects[op'.path] :
                   injects'[op'.path][i].trigger.count
                      = injects[op'.path][i].trigger.count ]_vars

\* One rule of the path counted the read; another, which had counted an
\* earlier read, has its target byte outside this window and kept its count.
C21_Witness ==
    /\ Handled
    /\ \E i, j \in DOMAIN PathRules :
          /\ IsByteRule(PathRules[i]) /\ InWindow(PathRules[i].trigger.byte)
          /\ PathRules[i].trigger.count = op.before[i] + 1
          /\ IsByteRule(PathRules[j]) /\ ~InWindow(PathRules[j].trigger.byte)
          /\ op.before[j] >= 1 /\ PathRules[j].trigger.count = op.before[j]

(***************************************************************************)
(* Vocabulary of the decoder's properties.                                 *)
(***************************************************************************)
Decoded == decoded.pc = "done" /\ decoded.err = NoErr

\* The whole records of EntryLen bytes the stream holds behind the header.
FullRecords ==
    IF EntryLen * Len(decoded.kinds) < decoded.cut THEN 0
    ELSE (EntryLen * Len(decoded.kinds) - decoded.cut) \div EntryLen

\* The entries the loop of read_partitions gets to see.
Visited == Min(decoded.num, FullRecords)

(***************************************************************************)
(* C11. An entry whose type GUID is all zero is in no decoded sequence and *)
(* in no snapshot, whatever its name and LBAs, and the entries behind it   *)
(* are decoded all the same.                                               *)
(***************************************************************************)
C11_ZeroGuidSkipped ==
    Decoded =>
      /\ \A i \in DOMAIN decoded.parts : decoded.parts[i].type # ZeroGuid
      /\ \A n \in DOMAIN READS[1] :
            /\ READS[1][n].type # ZeroGuid
            /\ READS[1][n].first_byte # SectorBytes * 8
      /\ decoded.esize = EntryLen =>
            \A k \in 1..Visited :
              IF decoded.kinds[k] = "unused"
                THEN \A i \in DOMAIN decoded.parts : decoded.parts[i].index # k
                ELSE \E i \in DOMAIN decoded.parts :
                        /\ decoded.parts[i].index = k
                        /\ decoded.parts[i].name = KindName(decoded.kinds[k])

\* An unused entry named ESP came first, and the two entries behind it were
\* decoded.
C11_Witness ==
    /\ Decoded /\ decoded.esize = EntryLen
    /\ decoded.kinds = <<"unused", "data", "esp">> /\ Visited = 3
    /\ Len(decoded.parts) = 2 /\ DOMAIN READS[1] = {ESP, DATA}

(***************************************************************************)
(* C18. Whatever part_entry_size the header gives, decoding the array ends *)
(* without an error as soon as less than one full record is left, yields   *)
(* at most num_part_entries entries, and yields the used entries that are  *)
(* wholly there.                                                           *)
(***************************************************************************)
C18_TruncationEndsNormally ==
    decoded.pc = "done" =>
      /\ decoded.err = NoErr
      /\ Len(decoded.parts) <= decoded.num
      /\ decoded.esize = EntryLen =>
            \A k \in 1..Visited :
              decoded.kinds[k] # "unused" =>
                \E i \in DOMAIN decoded.parts : decoded.parts[i].index = k

(***************************************************************************)
(* C20. Every call through a logs wrapper passes a pre-run record to the   *)
(* loggers before the wrapped call runs and exactly one record after it:   *)
(* post-run and the call returns, or error and the wrapped call's          *)
(* exception is raised to the caller.                                      *)
(***************************************************************************)
C20_PreThenOneTerminal ==
    logged.pc = "done" =>
      IF logged.outcome = "returns"
        THEN /\ logged.trail = <<"pre-run", "func", "post-run">>
             /\ logged.result = "returned"
        ELSE /\ logged.trail = <<"pre-run", "func", "error">>
             /\ logged.result = "raised" /\ logged.exc = "OSError"

(***************************************************************************)
(* C22. p.contains_byte(idx) is true exactly when first_byte <= idx <      *)
(* last_byte, and so for the partition get_partition(idx) names.           *)
(***************************************************************************)
C22_ContainsByteHalfOpen ==
    decoded.pc = "looked" =>
      \A n \in DOMAIN decoded.contains :
        /\ decoded.contains[n]
              <=> /\ READS[Len(READS)][n].first_byte <= decoded.idx
                  /\ decoded.idx < READS[Len(READS)][n].last_byte
        /\ decoded.name = n => decoded.contains[n]

(***************************************************************************)
(* C23. A call through logger.logs that returned gives its caller the      *)
(* value the wrapped function produced, content intact: a generator it     *)
(* returned still yields every item after a DBLogger recorded the call.    *)
(***************************************************************************)
C23_ResultIntact ==
    ( /\ logged.pc = "done" /\ logged.impl = "logger"
      /\ logged.outcome = "returns" )
    => /\ logged.result = "returned" => logged.res = Produced(logged.name)
       /\ ( /\ logged.res.kind = "generator" /\ logged.db
            /\ Selected(logged) )
          => /\ logged.result = "returned"
             /\ logged.res.left = Listing

====
